---------------------------- MODULE Spec2Model ----------------------------
(***************************************************************************)
(* keynesis-cli: the Passport wrapper of src/src/passport.rs (new,         *)
(* load_event, events, next_event_declare, next_event_repudiate, import,   *)
(* export) over the keynesis library's Passport, Event and EventCodec; the *)
(* Seed of src/src/random.rs; the Identity of src/src/identity.rs; and the *)
(* commands of src/src/main.rs that drive them.                            *)
(*                                                                         *)
(* The wrapper, the Seed, the Identity and the commands are translated     *)
(* from the source files.  The keynesis library and the hex crate are      *)
(* dependencies whose code is not part of the repository's files: the      *)
(* operators named Lib... and Hex..., the Event constructors, the codec    *)
(* and the key derivation are modelled from spec.md (sections 3, 4 and 6). *)
(*                                                                         *)
(* Four specifications: Spec (a Passport session), IdentitySpec (the       *)
(* `identity` commands), EventSpec (`event extra-signature`) and LoadSpec  *)
(* (`passport load`).                                                      *)
(***************************************************************************)
EXTENDS Integers, Sequences, FiniteSets, TLC

(***************************************************************************)
(* Bounds of the model.                                                    *)
(***************************************************************************)
\* the longest chain a Passport is grown to, and the longest stream fed to import
MaxChain == 3

\* how far the length of a seed text, or of an identity file, is from the
\* empty text and from the full encoding
MaxSlack == 2

(***************************************************************************)
(* Identities, signatures, events (keynesis::passport::Event).             *)
(***************************************************************************)
Ids == {"A", "B"}
Nobody == "nobody"

\* signature slots of an event: 0 is the author's, 1 the co-signer's
Slots == {0, 1}

\* an empty slot
NoSig == [by |-> Nobody, ok |-> FALSE]
\* a signature made with x's private key: it verifies under x's public identity
Sign(x) == [by |-> x, ok |-> TRUE]
\* a signature attributed to x that does not verify
Forged(x) == [by |-> x, ok |-> FALSE]

Unsigned == [s \in Slots |-> NoSig]

Declaration(w) == [kind |-> "Declaration", with |-> w, event |-> 0]
Repudiation(n) == [kind |-> "Repudiation", with |-> Nobody, event |-> n]

EventIds == 0..MaxChain
Actions == {Declaration(w) : w \in Ids} \cup {Repudiation(n) : n \in EventIds}

SlotValues == {NoSig} \cup {Sign(x) : x \in Ids} \cup {Forged(x) : x \in Ids}

\* the events a caller or a stream can present: any author slot; the co-signer
\* slot is empty or, on a Declaration, signed by the identity it declares
\* (`event extra-signature --index 1`, src/src/main.rs 141-145)
Events ==
    {e \in [id : EventIds, action : Actions, sigs : [Slots -> SlotValues]] :
        \/ e.sigs[1] = NoSig
        \/ e.action.kind = "Declaration" /\ e.sigs[1] = Sign(e.action.with)}

\* Event::force_signature(identity, index): sets the slot `index`
force_signature(e, identity, index) ==
    [e EXCEPT !.sigs = [e.sigs EXCEPT ![index] = Sign(identity)]]

\* Event::force_self_sign(identity): the author's signature, at slot 0
force_self_sign(e, identity) == force_signature(e, identity, 0)

\* the identities whose signature an event carries
Signers(e) == {e.sigs[s].by : s \in {t \in Slots : e.sigs[t] # NoSig}}

(***************************************************************************)
(* keynesis::Passport: the chain and the active-identity set it keeps.     *)
(***************************************************************************)
NoPassport == [events |-> <<>>, active |-> {}]

\* Passport::prepare_next_event(action): unsigned, id = the next position
prepare_next_event(p, action) ==
    [id |-> Len(p.events), action |-> action, sigs |-> Unsigned]

\* a genesis event: the self-signed Declaration at position 0
IsGenesis(e) ==
    /\ e.id = 0
    /\ e.action.kind = "Declaration"
    /\ e.sigs[0] = Sign(e.action.with)

\* keynesis::Passport::new(identity)
LibNew(identity) ==
    [events |-> <<force_self_sign(prepare_next_event(NoPassport, Declaration(identity)),
                                  identity)>>,
     active |-> {identity}]

\* keynesis::Passport::new_with(event)
LibNewWith(e) ==
    IF IsGenesis(e)
    THEN [ok |-> TRUE, err |-> "none",
          passport |-> [events |-> <<e>>, active |-> {e.action.with}]]
    ELSE [ok |-> FALSE, err |-> "invalid_genesis", passport |-> NoPassport]

\* the event n of the chain has been repudiated by an event of the chain
Repudiated(p, n) ==
    \E i \in 1..Len(p.events) :
        /\ p.events[i].action.kind = "Repudiation"
        /\ p.events[i].action.event = n

\* event id n is in the chain and is a Declaration that is still active: the
\* identity it declares is active and no event repudiates it already
ActiveDeclaration(p, n) ==
    /\ n < Len(p.events)
    /\ p.events[n + 1].action.kind = "Declaration"
    /\ p.events[n + 1].action.with \in p.active
    /\ ~Repudiated(p, n)

\* the validation rules of load_event: "ok" or the rule that is violated.
\* The id is the next position of the chain (section 3: ids are assigned by
\* chain position and unique); the author slot, the one slot every action
\* requires, holds a signature that verifies (rule 4) and whose signer is
\* active (rules 1 and 2); a Repudiation names an active declaration (rule 3).
LibCheck(p, e) ==
    IF e.id # Len(p.events) THEN "bad_id"
    ELSE IF ~e.sigs[0].ok THEN "bad_signature"
    ELSE IF e.sigs[0].by \notin p.active THEN "unauthorized"
    ELSE IF e.action.kind = "Repudiation" /\ ~ActiveDeclaration(p, e.action.event)
    THEN "bad_reference"
    ELSE "ok"

\* the active-identity set after an accepted event
LibApply(p, e) ==
    IF e.action.kind = "Declaration"
    THEN p.active \cup {e.action.with}
    ELSE p.active \ {p.events[e.action.event + 1].action.with}

\* keynesis::Passport::load_event(event)
LibLoadEvent(p, e) ==
    IF LibCheck(p, e) = "ok"
    THEN [ok |-> TRUE, err |-> "none",
          passport |-> [events |-> Append(p.events, e), active |-> LibApply(p, e)]]
    ELSE [ok |-> FALSE, err |-> LibCheck(p, e), passport |-> p]

\* keynesis::Passport::iter()
LibIter(p) == p.events

(***************************************************************************)
(* keynesis::passport::EventCodec: one frame per event.  A frame is a      *)
(* sequence of numbers: the action discriminant, the action payload, the   *)
(* event id, the number of signatures, then one (slot, signer, verifies)   *)
(* triple per filled slot, in slot order.                                  *)
(***************************************************************************)
IdCode == [x \in Ids \cup {Nobody} |-> IF x = "A" THEN 1 ELSE IF x = "B" THEN 2 ELSE 0]
IdOf(c) == CHOOSE x \in Ids : IdCode[x] = c

LastSlot == CHOOSE s \in Slots : \A t \in Slots : t <= s

\* the (slot, signature) pairs of the slots s..LastSlot that are filled
RECURSIVE EncodeSlots(_, _)
EncodeSlots(e, s) ==
    IF s > LastSlot THEN <<>>
    ELSE (IF e.sigs[s] = NoSig THEN <<>>
          ELSE <<s, IdCode[e.sigs[s].by], IF e.sigs[s].ok THEN 1 ELSE 0>>)
         \o EncodeSlots(e, s + 1)

\* Encoder::encode(event)
Encode(e) ==
    LET pairs == EncodeSlots(e, 0)
    IN  <<IF e.action.kind = "Declaration" THEN 0 ELSE 1,
          IF e.action.kind = "Declaration" THEN IdCode[e.action.with] ELSE e.action.event,
          e.id,
          Len(pairs) \div 3>> \o pairs

\* the k-th (slot, signer, verifies) triple of a frame
PairSlot(f, k) == f[4 + 3 * (k - 1) + 1]
PairBy(f, k) == f[4 + 3 * (k - 1) + 2]
PairOk(f, k) == f[4 + 3 * (k - 1) + 3]

\* a frame the decoder accepts: complete, known discriminant, slots in order
WellFormed(f) ==
    /\ Len(f) >= 4
    /\ f[1] \in {0, 1}
    /\ f[1] = 0 => f[2] \in {IdCode[x] : x \in Ids}
    /\ f[2] >= 0 /\ f[3] >= 0 /\ f[4] >= 0
    /\ Len(f) = 4 + 3 * f[4]
    /\ \A k \in 1..f[4] :
          /\ PairSlot(f, k) \in Slots
          /\ PairBy(f, k) \in {IdCode[x] : x \in Ids}
          /\ PairOk(f, k) \in {0, 1}
          /\ k > 1 => PairSlot(f, k - 1) < PairSlot(f, k)

\* Decoder::decode(frame): the event, or a data error
Decode(f) ==
    IF WellFormed(f)
    THEN [ok |-> TRUE,
          event |->
            [id |-> f[3],
             action |-> IF f[1] = 0 THEN Declaration(IdOf(f[2])) ELSE Repudiation(f[2]),
             sigs |-> [s \in Slots |->
                         IF \E k \in 1..f[4] : PairSlot(f, k) = s
                         THEN LET k == CHOOSE j \in 1..f[4] : PairSlot(f, j) = s
                              IN  [by |-> IdOf(PairBy(f, k)), ok |-> PairOk(f, k) = 1]
                         ELSE NoSig]]]
    ELSE [ok |-> FALSE, event |-> prepare_next_event(NoPassport, Declaration(Nobody))]

\* frames no decoder accepts: cut short, or with an unknown discriminant
Truncated(f) == SubSeq(f, 1, Len(f) - 1)
BadTag(f) == [f EXCEPT ![1] = 2]
GarbageFrames ==
    UNION {{Truncated(Encode(LibNew(x).events[1])), BadTag(Encode(LibNew(x).events[1]))} :
            x \in Ids}

\* what reader.next() yields when the underlying read fails: Some(Err(..)),
\* an item that carries no frame
ReadError == <<>>

\* what an untrusted stream can hold
Frames == {Encode(e) : e \in Events} \cup GarbageFrames

(***************************************************************************)
(* The Passport of src/src/passport.rs.                                    *)
(***************************************************************************)
\* Passport::new that leaves the genesis event unsigned
new_unsigned(id) ==
    [events |-> <<prepare_next_event(NoPassport, Declaration(id))>>, active |-> {id}]

\* Passport::new
new(id) == LibNew(id)

\* Passport::load_event that keeps the event it was given when the chain rejects it
load_event_keeps_rejected(p, e) ==
    [LibLoadEvent(p, e) EXCEPT !.passport = [p EXCEPT !.events = Append(p.events, e)]]

\* Passport::load_event that appends without asking the chain
load_event_unchecked(p, e) ==
    [ok |-> TRUE, err |-> "none", passport |-> [p EXCEPT !.events = Append(p.events, e)]]

\* Passport::load_event
load_event(p, e) == LibLoadEvent(p, e)

\* Passport::events that leaves out the Declarations that were repudiated
events_without_repudiated(p) ==
    SelectSeq(LibIter(p), LAMBDA e : ~(e.action.kind = "Declaration" /\ Repudiated(p, e.id)))

\* Passport::events
events(p) == LibIter(p)

\* Passport::next_event_declare that forgets force_self_sign
next_event_declare_unsigned(p, id, with) ==
    prepare_next_event(p, Declaration(with))

\* Passport::next_event_declare that numbers the event after the last event
\* of the chain instead of after the chain's length
next_event_declare_stale_id(p, id, with) ==
    [force_self_sign(prepare_next_event(p, Declaration(with)), id)
        EXCEPT !.id = p.events[Len(p.events)].id]

\* Passport::next_event_declare
next_event_declare(p, id, with) ==
    force_self_sign(prepare_next_event(p, Declaration(with)), id)

\* Passport::next_event_repudiate
next_event_repudiate(p, id, event) ==
    force_self_sign(prepare_next_event(p, Repudiation(event)), id)

\* Passport::export that writes the newest event first
export_reversed(p) ==
    [i \in 1..Len(LibIter(p)) |-> Encode(LibIter(p)[Len(LibIter(p)) + 1 - i])]

\* Passport::export: one frame per event, in the chain's order
export(p) == [i \in 1..Len(LibIter(p)) |-> Encode(LibIter(p)[i])]

\* io::Result<Passport>
Ok(p) == [ok |-> TRUE, kind |-> "none", passport |-> p]
Err(kind) == [ok |-> FALSE, kind |-> kind, passport |-> NoPassport]
NoResult == [ok |-> FALSE, kind |-> "pending", passport |-> NoPassport]

\* Passport::import whose first read takes any decoded event as the genesis
import_first_unvalidated(item) ==
    IF item = <<>>
    THEN [pc |-> "err", imp |-> NoPassport, ret |-> Err("InvalidInput")]
    ELSE IF ~Decode(item[1]).ok
    THEN [pc |-> "err", imp |-> NoPassport, ret |-> Err("InvalidData")]
    ELSE [pc |-> "loop",
          imp |-> [events |-> <<Decode(item[1]).event>>,
                   active |-> {Decode(item[1]).event.action.with} \cap Ids],
          ret |-> NoResult]

\* Passport::import, the first read (lines 52-61). item is <<>> at the end of
\* the stream and <<frame>> otherwise.
import_first(item) ==
    IF item = <<>>
    THEN [pc |-> "err", imp |-> NoPassport, ret |-> Err("InvalidInput")]
    ELSE IF ~Decode(item[1]).ok
    THEN [pc |-> "err", imp |-> NoPassport, ret |-> Err("InvalidData")]
    ELSE IF ~LibNewWith(Decode(item[1]).event).ok
    THEN [pc |-> "err", imp |-> NoPassport, ret |-> Err("InvalidData")]
    ELSE [pc |-> "loop", imp |-> LibNewWith(Decode(item[1]).event).passport,
          ret |-> NoResult]

\* Passport::import whose loop skips what it cannot decode or load
import_next_skips(p, item) ==
    IF item = <<>>
    THEN [pc |-> "ok", imp |-> NoPassport, ret |-> Ok(p)]
    ELSE IF ~Decode(item[1]).ok \/ ~LibLoadEvent(p, Decode(item[1]).event).ok
    THEN [pc |-> "loop", imp |-> p, ret |-> NoResult]
    ELSE [pc |-> "loop", imp |-> LibLoadEvent(p, Decode(item[1]).event).passport,
          ret |-> NoResult]

\* Passport::import, one turn of the loop (lines 63-70)
import_next(p, item) ==
    IF item = <<>>
    THEN [pc |-> "ok", imp |-> NoPassport, ret |-> Ok(p)]
    ELSE IF ~Decode(item[1]).ok
    THEN [pc |-> "err", imp |-> NoPassport, ret |-> Err("InvalidData")]
    ELSE IF ~LibLoadEvent(p, Decode(item[1]).event).ok
    THEN [pc |-> "err", imp |-> NoPassport, ret |-> Err("InvalidData")]
    ELSE [pc |-> "loop", imp |-> LibLoadEvent(p, Decode(item[1]).event).passport,
          ret |-> NoResult]

(***************************************************************************)
(* The Seed of src/src/random.rs and the Identity of src/src/identity.rs.  *)
(* Text and buffers are sequences of bytes; a character is its ASCII code. *)
(* The hex crate's decode, decode_to_slice and encode, and keynesis::Seed   *)
(* and PrivateIdentity, are dependencies modelled from spec.md (4.1, 4.2).  *)
(***************************************************************************)
\* a buffer of n zero bytes: a new array, and what scrub() leaves
Zeros(n) == [i \in 1..n |-> 0]

\* c is one of 0-9, a-f, A-F
IsHex(c) == c \in (48..57) \cup (97..102) \cup (65..70)

\* the value of the hex digit c
HexVal(c) == IF c \in 48..57 THEN c - 48 ELSE IF c \in 97..102 THEN c - 87 ELSE c - 55

\* the lower-case hex digit of the value d
HexChar(d) == IF d < 10 THEN 48 + d ELSE 87 + d

\* hex::encode(bytes): two lower-case digits per byte
HexEncode(bytes) ==
    [i \in 1..(2 * Len(bytes)) |->
        IF i % 2 = 1 THEN HexChar(bytes[(i + 1) \div 2] \div 16)
        ELSE HexChar(bytes[i \div 2] % 16)]

\* the byte the k-th pair of digits of s encodes
PairByte(s, k) == 16 * HexVal(s[2 * k - 1]) + HexVal(s[2 * k])

\* hex::decode(s): the bytes, or a FromHexError
HexDecode(s) ==
    IF Len(s) % 2 = 1
    THEN [ok |-> FALSE, err |-> "OddLength", bytes |-> <<>>]
    ELSE IF \E i \in 1..Len(s) : ~IsHex(s[i])
    THEN [ok |-> FALSE, err |-> "InvalidHexCharacter", bytes |-> <<>>]
    ELSE [ok |-> TRUE, err |-> "none",
          bytes |-> [k \in 1..(Len(s) \div 2) |-> PairByte(s, k)]]

\* the pairs of s that precede its first digit that is not hex
GoodPairs(s) ==
    IF \A i \in 1..Len(s) : IsHex(s[i]) THEN Len(s) \div 2
    ELSE ((CHOOSE i \in 1..Len(s) : ~IsHex(s[i]) /\ \A j \in 1..(i - 1) : IsHex(s[j])) - 1) \div 2

\* hex::decode_to_slice(s, out) for an out of n zero bytes: out is filled
\* pair by pair, up to the first pair that does not decode
HexDecodeToSlice(s, n) ==
    IF Len(s) % 2 = 1
    THEN [ok |-> FALSE, err |-> "OddLength", out |-> Zeros(n)]
    ELSE IF Len(s) \div 2 # n
    THEN [ok |-> FALSE, err |-> "InvalidStringLength", out |-> Zeros(n)]
    ELSE [ok |-> \A i \in 1..Len(s) : IsHex(s[i]),
          err |-> IF \A i \in 1..Len(s) : IsHex(s[i]) THEN "none" ELSE "InvalidHexCharacter",
          out |-> [k \in 1..n |-> IF k <= GoodPairs(s) THEN PairByte(s, k) ELSE 0]]

\* the seed bytes of ChaChaRng::from_seed
ChaChaKeyLen == 32

\* Option<Seed>, and Result<Seed, FromHexError>
NoSeed == [some |-> FALSE, bytes |-> <<>>]
SomeSeed(bytes) == [some |-> TRUE, bytes |-> bytes]

\* Seed::from_hex that accepts nothing but the encoding of 32 bytes
from_hex_fixed_length(s) ==
    IF HexDecode(s).ok /\ Len(HexDecode(s).bytes) = ChaChaKeyLen
    THEN [ok |-> TRUE, err |-> "none", seed |-> SomeSeed(HexDecode(s).bytes)]
    ELSE [ok |-> FALSE, err |-> "InvalidStringLength", seed |-> NoSeed]

\* Seed::from_hex, and FromStr for Seed
from_hex(s) ==
    IF HexDecode(s).ok
    THEN [ok |-> TRUE, err |-> "none", seed |-> SomeSeed(HexDecode(s).bytes)]
    ELSE [ok |-> FALSE, err |-> HexDecode(s).err, seed |-> NoSeed]

\* Seed::to_hex, and Display for Seed
to_hex(bytes) == HexEncode(bytes)

\* Seed::into_cha_cha_rng(self).  key: the seed of the generator; left: what
\* the buffers the call released hold: the local array and the Vec of self,
\* which Drop scrubs.  With more than 32 bytes the debug_assert, or without
\* it the slice seed[..len], panics.
into_cha_cha_rng(bytes) ==
    IF Len(bytes) > ChaChaKeyLen
    THEN [panic |-> TRUE, key |-> <<>>,
          left |-> {Zeros(ChaChaKeyLen), Zeros(Len(bytes))}]
    ELSE [panic |-> FALSE,
          key |-> [i \in 1..ChaChaKeyLen |-> IF i <= Len(bytes) THEN bytes[i] ELSE 0],
          left |-> {[i \in 1..ChaChaKeyLen |-> IF i <= Len(bytes) THEN bytes[i] ELSE 0],
                    Zeros(Len(bytes))}]

\* keynesis::Seed::SIZE
SeedSize == 32

\* keynesis::Seed::generate(rng): the bytes the generator seeded with key yields
Generate(key) == [i \in 1..SeedSize |-> (key[i] * 7 + i) % 256]

\* PrivateIdentity::from_seed(seed).public_id(): the public key derived from
\* the seed
PublicId(seed) == [i \in 1..Len(seed) |-> (seed[i] * 5 + 3) % 256]

\* struct Identity { seed, identity }, and the absence of one
NoIdentity == [some |-> FALSE, seed |-> <<>>, public |-> <<>>]
IdentityOf(seed) == [some |-> TRUE, seed |-> seed, public |-> PublicId(seed)]

\* Identity::generate_new(rng)
generate_new(key) == IdentityOf(Generate(key))

\* Identity::export that ends the text with a line feed
identity_export_line(I) ==
    [written |-> Append(HexEncode(I.seed), 10), left |-> {Append(HexEncode(I.seed), 10)}]

\* Identity::export(out).  written: what io::copy wrote; left: what the
\* String of the hex form holds when the call releases it
identity_export(I) ==
    [written |-> HexEncode(I.seed), left |-> {HexEncode(I.seed)}]

\* Identity::import that fills what a short stream lacks with the digit 0
identity_import_padded(stream) ==
    LET bytes == [i \in 1..(2 * SeedSize) |->
                     IF i <= Len(stream) THEN stream[i] ELSE 48]
        d == HexDecodeToSlice(bytes, SeedSize)
    IN  IF ~d.ok
        THEN [ok |-> FALSE, kind |-> "InvalidData", identity |-> NoIdentity,
              left |-> {bytes, d.out}]
        ELSE [ok |-> TRUE, kind |-> "none", identity |-> IdentityOf(d.out),
              left |-> {bytes, d.out}]

\* Identity::import(reader) on a reader that holds stream.  left: what the
\* local arrays bytes and seed hold when the call releases them (after a
\* short read, bytes holds what was read)
identity_import(stream) ==
    LET bytes == [i \in 1..(2 * SeedSize) |->
                     IF i <= Len(stream) THEN stream[i] ELSE 0]
        d == HexDecodeToSlice(bytes, SeedSize)
    IN  IF Len(stream) < 2 * SeedSize
        THEN [ok |-> FALSE, kind |-> "UnexpectedEof", identity |-> NoIdentity,
              left |-> {bytes, Zeros(SeedSize)}]
        ELSE IF ~d.ok
        THEN [ok |-> FALSE, kind |-> "InvalidData", identity |-> NoIdentity,
              left |-> {bytes, d.out}]
        ELSE [ok |-> TRUE, kind |-> "none", identity |-> IdentityOf(d.out),
              left |-> {bytes, d.out}]

\* io::Result<Identity> before import has returned
NoImport == [ok |-> FALSE, kind |-> "pending", identity |-> NoIdentity, left |-> {}]

(***************************************************************************)
(* The state: one session holding an identity and at most one Passport.    *)
(***************************************************************************)
VARIABLES
    identity,   \* the Identity the session holds
    pc,         \* "init", "ready", "exported", "first", "loop", "ok", "err",
                \* "panic", "done"
    passport,   \* the Passport in memory, NoPassport before there is one
    arg,        \* <<e>>: the event about to be loaded; <<>>: none
    res,        \* what the last operation on the Passport returned
    wire,       \* the byte stream, frame by frame
    closed,     \* the stream has ended: no frame follows those of wire
    rd,         \* the number of frames import has read
    imp,        \* import's local passport
    ret,        \* what import returned
    out,        \* what `passport info` wrote to the standard output
    ipc,        \* the `identity` command: "idle", "args", "usage", "parsed",
                \* "panic", "seeded", "made", "stored", "altered", "imported",
                \* "failed"
    text,       \* the text given as --seed
    seed,       \* the Seed parsed from it
    rng,        \* the seed bytes of the ChaChaRng
    ident,      \* the Identity generated
    file,       \* the identity file
    got,        \* what Identity::import returned
    freed,      \* what the buffers released so far hold
    ev,         \* the event in the event file of `event extra-signature`
    last,       \* <<x, i>>: the last signature added was x's, at slot i
    lpc,        \* the `passport load` command: "idle", "import", "read",
                \* "append", "create", "write", "done", "panic"
    disk,       \* the passport file, frame by frame
    orig,       \* the passport file as it was when the command started
    lp,         \* the Passport the command holds
    lev         \* <<e>>: the event the command read; <<>>: none yet

\* the session's own variables, and the others
session == <<identity, pc, passport, arg, res, wire, closed, rd, imp, ret>>
session_but_pc == <<identity, passport, arg, res, wire, closed, rd, imp, ret>>
idvars == <<ipc, text, seed, rng, ident, file, got, freed>>
evvars == <<ev, last>>
ldvars == <<lpc, disk, orig, lp, lev>>
others == <<out, idvars, evvars, ldvars>>
vars == <<session, others>>

\* no event file
NoEvent == prepare_next_event(NoPassport, Declaration(Nobody))

\* nothing was written to the standard output
NoOutput == [flags |-> {}, wrote |-> {}, events |-> <<>>, active |-> {}]

\* the flags of `passport info`
InfoFlags == {"active_ids", "events"}

\* what `passport info` writes for the imported Passport p (lines 240-242):
\* the events when --events is given; the flag active_ids is bound and
\* never read
info(p, flags) ==
    [flags |-> flags,
     wrote |-> flags \cap {"events"},
     events |-> IF "events" \in flags THEN events(p) ELSE <<>>,
     active |-> {}]

\* no Passport command has run
SessionStart ==
    /\ pc = "init"
    /\ passport = NoPassport
    /\ arg = <<>>
    /\ res = "none"
    /\ wire = <<>>
    /\ closed = FALSE
    /\ rd = 0
    /\ imp = NoPassport
    /\ ret = NoResult
    /\ out = NoOutput

\* no `identity` command runs
IdentityIdle ==
    /\ ipc = "idle"
    /\ text = <<>>
    /\ seed = NoSeed
    /\ rng = <<>>
    /\ ident = NoIdentity
    /\ file = <<>>
    /\ got = NoImport
    /\ freed = {}

\* no `event extra-signature` command runs
EventIdle ==
    /\ ev = NoEvent
    /\ last = <<>>

\* no `passport load` command runs
LoadIdle ==
    /\ lpc = "idle"
    /\ disk = <<>>
    /\ orig = <<>>
    /\ lp = NoPassport
    /\ lev = <<>>

Init ==
    /\ identity \in Ids
    /\ SessionStart
    /\ IdentityIdle
    /\ EventIdle
    /\ LoadIdle

\* `passport new`: Passport::new(&identity)
New ==
    /\ pc = "init"
    /\ passport' = new(identity)
    /\ pc' = "ready"
    /\ res' = "new"
    /\ UNCHANGED <<identity, arg, wire, closed, rd, imp, ret>>
    /\ UNCHANGED others

\* an event arrives from outside (an event file, the standard input)
ReadEvent(e) ==
    /\ pc = "ready" /\ arg = <<>>
    /\ Len(events(passport)) < MaxChain
    /\ arg' = <<e>>
    /\ res' = "none"
    /\ UNCHANGED <<identity, pc, passport, wire, closed, rd, imp, ret>>
    /\ UNCHANGED others

\* `event declare`: the session's identity prepares and signs a Declaration
DeclareEvent(with) ==
    /\ pc = "ready" /\ arg = <<>>
    /\ Len(events(passport)) < MaxChain
    /\ arg' = <<next_event_declare(passport, identity, with)>>
    /\ res' = "none"
    /\ UNCHANGED <<identity, pc, passport, wire, closed, rd, imp, ret>>
    /\ UNCHANGED others

\* `event repudiate`: the session's identity prepares and signs a Repudiation
RepudiateEvent(n) ==
    /\ pc = "ready" /\ arg = <<>>
    /\ Len(events(passport)) < MaxChain
    /\ arg' = <<next_event_repudiate(passport, identity, n)>>
    /\ res' = "none"
    /\ UNCHANGED <<identity, pc, passport, wire, closed, rd, imp, ret>>
    /\ UNCHANGED others

\* Passport::load_event(event)
LoadEvent ==
    /\ pc = "ready" /\ arg # <<>>
    /\ passport' = load_event(passport, arg[1]).passport
    /\ res' = IF load_event(passport, arg[1]).ok THEN "ok"
              ELSE load_event(passport, arg[1]).err
    /\ arg' = <<>>
    /\ UNCHANGED <<identity, pc, wire, closed, rd, imp, ret>>
    /\ UNCHANGED others

\* Passport::export(writer)
Export ==
    /\ pc = "ready" /\ arg = <<>>
    /\ wire' = export(passport)
    /\ closed' = TRUE
    /\ rd' = 0
    /\ pc' = "exported"
    /\ UNCHANGED <<identity, passport, arg, res, imp, ret>>
    /\ UNCHANGED others

\* Passport::export(writer) to a writer whose n-th send fails: line 80 unwraps
\* the result of the send, so the failure is raised as a panic after the
\* first n - 1 frames were written, and export returns nothing
ExportFails(n) ==
    /\ pc = "ready" /\ arg = <<>>
    /\ n \in 1..Len(export(passport))
    /\ wire' = SubSeq(export(passport), 1, n - 1)
    /\ closed' = TRUE
    /\ rd' = 0
    /\ pc' = "panic"
    /\ UNCHANGED <<identity, passport, arg, res, imp, ret>>
    /\ UNCHANGED others

\* the exported stream is damaged before it is read back: frame i is
\* overwritten, the frames after it are intact
Corrupt(i) ==
    /\ pc = "exported"
    /\ i \in 1..Len(wire)
    /\ wire[i] = export(passport)[i]
    /\ wire' = [wire EXCEPT ![i] = BadTag(wire[i])]
    /\ UNCHANGED <<identity, pc, passport, arg, res, closed, rd, imp, ret>>
    /\ UNCHANGED others

\* Passport::import(reader) of the stream just exported
ImportExported ==
    /\ pc = "exported"
    /\ pc' = "first"
    /\ UNCHANGED <<identity, passport, arg, res, wire, closed, rd, imp, ret>>
    /\ UNCHANGED others

\* Passport::import(reader) of a stream from outside
ImportUntrusted ==
    /\ pc = "init"
    /\ pc' = "first"
    /\ UNCHANGED <<identity, passport, arg, res, wire, closed, rd, imp, ret>>
    /\ UNCHANGED others

\* the import waits for bytes the stream has not delivered yet
Starved == ~closed /\ rd = Len(wire)

\* the next frame of a stream from outside arrives
Feed(f) ==
    /\ pc \in {"first", "loop"} /\ Starved
    /\ Len(wire) < MaxChain
    /\ wire' = Append(wire, f)
    /\ UNCHANGED <<identity, pc, passport, arg, res, closed, rd, imp, ret>>
    /\ UNCHANGED others

\* the read of a stream from outside fails: the stream yields the error and
\* then ends
ReadFails ==
    /\ pc \in {"first", "loop"} /\ Starved
    /\ Len(wire) < MaxChain
    /\ wire' = Append(wire, ReadError)
    /\ closed' = TRUE
    /\ UNCHANGED <<identity, pc, passport, arg, res, rd, imp, ret>>
    /\ UNCHANGED others

\* a stream from outside ends
CloseStream ==
    /\ pc \in {"first", "loop"} /\ Starved
    /\ closed' = TRUE
    /\ UNCHANGED <<identity, pc, passport, arg, res, wire, rd, imp, ret>>
    /\ UNCHANGED others

\* reader.next().await: <<>> at the end of the stream
NextItem == IF rd = Len(wire) THEN <<>> ELSE <<wire[rd + 1]>>

ImportFirst ==
    /\ pc = "first" /\ ~Starved
    /\ pc' = import_first(NextItem).pc
    /\ imp' = import_first(NextItem).imp
    /\ ret' = import_first(NextItem).ret
    /\ rd' = rd + Len(NextItem)
    /\ UNCHANGED <<identity, passport, arg, res, wire, closed>>
    /\ UNCHANGED others

ImportNext ==
    /\ pc = "loop" /\ ~Starved
    /\ pc' = import_next(imp, NextItem).pc
    /\ imp' = import_next(imp, NextItem).imp
    /\ ret' = import_next(imp, NextItem).ret
    /\ rd' = rd + Len(NextItem)
    /\ UNCHANGED <<identity, passport, arg, res, wire, closed>>
    /\ UNCHANGED others

\* `passport info`: the import succeeded, the command writes and ends
Info(flags) ==
    /\ pc = "ok"
    /\ out' = info(ret.passport, flags)
    /\ pc' = "done"
    /\ UNCHANGED session_but_pc
    /\ UNCHANGED <<idvars, evvars, ldvars>>

\* the caller takes the imported Passport: let passport = Passport::import(..)
UseImported ==
    /\ pc = "ok"
    /\ passport' = ret.passport
    /\ pc' = "ready"
    /\ res' = "imported"
    /\ wire' = <<>> /\ closed' = FALSE /\ rd' = 0 /\ ret' = NoResult
    /\ UNCHANGED <<identity, arg, imp>>
    /\ UNCHANGED others

Next ==
    \/ New
    \/ \E e \in Events : ReadEvent(e)
    \/ \E w \in Ids : DeclareEvent(w)
    \/ \E n \in EventIds : RepudiateEvent(n)
    \/ LoadEvent
    \/ Export
    \/ \E n \in 1..MaxChain : ExportFails(n)
    \/ \E i \in 1..MaxChain : Corrupt(i)
    \/ ImportExported
    \/ ImportUntrusted
    \/ \E f \in Frames : Feed(f)
    \/ ReadFails
    \/ CloseStream
    \/ ImportFirst
    \/ ImportNext
    \/ \E flags \in SUBSET InfoFlags : Info(flags)
    \/ UseImported

Spec == Init /\ [][Next]_vars


(***************************************************************************)
(* The `identity generate` and `identity info` commands of src/src/main.rs:*)
(* a seed text is parsed, seeds the generator, an Identity is generated    *)
(* and exported to a file; the file, as it is or altered, is imported.     *)
(***************************************************************************)
\* the text of n characters c, with d at position k (k = 0: c everywhere)
Pattern(n, c, k, d) == [i \in 1..n |-> IF i = k THEN d ELSE c]

\* the positions at which a text is given another character
Spots(n) == {1, 2, n - 1, n} \cap (1..n)

\* the lengths of the texts given as --seed: short ones, and those around the
\* encoding of ChaChaKeyLen bytes
TextLens ==
    (0..MaxSlack) \cup ((2 * ChaChaKeyLen - MaxSlack)..(2 * ChaChaKeyLen + MaxSlack))

\* the texts given as --seed: the digits 1 or f, and at most one of A, 0, g
Texts ==
    UNION {{Pattern(n, c, 0, c) : c \in {49, 102}} \cup
           {Pattern(n, c, k, d) : c \in {49, 102}, k \in Spots(n), d \in {65, 48, 103}} :
           n \in TextLens}

\* the lengths an identity file is cut to
CutLens == (0..MaxSlack) \cup ((2 * SeedSize - MaxSlack)..(2 * SeedSize - 1))

IdentityInit ==
    /\ identity = "A"
    /\ SessionStart
    /\ EventIdle
    /\ LoadIdle
    /\ ipc = "args"
    /\ text \in Texts
    /\ seed = NoSeed
    /\ rng = <<>>
    /\ ident = NoIdentity
    /\ file = <<>>
    /\ got = NoImport
    /\ freed = {}

\* structopt parses --seed with FromStr for Seed; an error ends the command
ParseSeed ==
    /\ ipc = "args"
    /\ seed' = from_hex(text).seed
    /\ ipc' = IF from_hex(text).ok THEN "parsed" ELSE "usage"
    /\ UNCHANGED <<text, rng, ident, file, got, freed>>
    /\ UNCHANGED <<session, out, evvars, ldvars>>

\* let mut rng = seed.into_cha_cha_rng()
IntoChaChaRng ==
    /\ ipc = "parsed"
    /\ rng' = into_cha_cha_rng(seed.bytes).key
    /\ ipc' = IF into_cha_cha_rng(seed.bytes).panic THEN "panic" ELSE "seeded"
    /\ freed' = freed \cup into_cha_cha_rng(seed.bytes).left
    /\ seed' = NoSeed
    /\ UNCHANGED <<text, ident, file, got>>
    /\ UNCHANGED <<session, out, evvars, ldvars>>

\* let identity = Identity::generate_new(&mut rng)
GenerateNew ==
    /\ ipc = "seeded"
    /\ ident' = generate_new(rng)
    /\ ipc' = "made"
    /\ UNCHANGED <<text, seed, rng, file, got, freed>>
    /\ UNCHANGED <<session, out, evvars, ldvars>>

\* identity.export(&mut writer); ident stays as the record of what was exported
ExportIdentity ==
    /\ ipc = "made"
    /\ file' = identity_export(ident).written
    /\ freed' = freed \cup identity_export(ident).left
    /\ ipc' = "stored"
    /\ UNCHANGED <<text, seed, rng, ident, got>>
    /\ UNCHANGED <<session, out, evvars, ldvars>>

\* the identity file is cut short before it is read
Truncate(n) ==
    /\ ipc = "stored"
    /\ n < Len(file)
    /\ file' = SubSeq(file, 1, n)
    /\ ipc' = "altered"
    /\ UNCHANGED <<text, seed, rng, ident, got, freed>>
    /\ UNCHANGED <<session, out, evvars, ldvars>>

\* one character of the identity file is overwritten before it is read
Damage(k, d) ==
    /\ ipc = "stored"
    /\ k \in 1..Len(file)
    /\ file[k] # d
    /\ file' = [file EXCEPT ![k] = d]
    /\ ipc' = "altered"
    /\ UNCHANGED <<text, seed, rng, ident, got, freed>>
    /\ UNCHANGED <<session, out, evvars, ldvars>>

\* a line feed is added to the identity file before it is read
Extend ==
    /\ ipc = "stored"
    /\ file' = Append(file, 10)
    /\ ipc' = "altered"
    /\ UNCHANGED <<text, seed, rng, ident, got, freed>>
    /\ UNCHANGED <<session, out, evvars, ldvars>>

\* let identity = Identity::import(&mut reader)
ImportIdentity ==
    /\ ipc \in {"stored", "altered"}
    /\ got' = identity_import(file)
    /\ freed' = freed \cup identity_import(file).left
    /\ ipc' = IF identity_import(file).ok THEN "imported" ELSE "failed"
    /\ UNCHANGED <<text, seed, rng, ident, file>>
    /\ UNCHANGED <<session, out, evvars, ldvars>>

IdentityNext ==
    \/ ParseSeed
    \/ IntoChaChaRng
    \/ GenerateNew
    \/ ExportIdentity
    \/ \E n \in CutLens : Truncate(n)
    \/ \E k \in Spots(2 * SeedSize), d \in {65, 71, 103, 32} : Damage(k, d)
    \/ Extend
    \/ ImportIdentity

IdentitySpec == IdentityInit /\ [][IdentityNext]_vars

(***************************************************************************)
(* The `event extra-signature` command of src/src/main.rs: the event of the *)
(* event file is read, signed at the slot --index, and written back.       *)
(***************************************************************************)
\* the events an event file can hold: any id and action, any slots
FileEvents == [id : EventIds, action : Actions, sigs : [Slots -> SlotValues]]

\* `event extra-signature` that also signs the author slot
extra_signature_and_self_sign(e, id, index) ==
    force_self_sign(force_signature(e, id, index), id)

\* event.force_signature(identity.private_key(), index)
extra_signature(e, id, index) == force_signature(e, id, index)

EventInit ==
    /\ identity \in Ids
    /\ SessionStart
    /\ IdentityIdle
    /\ LoadIdle
    /\ ev \in FileEvents
    /\ last = <<>>

\* `event extra-signature --identity x --index i --event file`
ExtraSignature(x, i) ==
    /\ ev' = extra_signature(ev, x, i)
    /\ last' = <<x, i>>
    /\ UNCHANGED <<session, out, idvars, ldvars>>

EventNext == \E x \in Ids, i \in Slots : ExtraSignature(x, i)

EventSpec == EventInit /\ [][EventNext]_vars

(***************************************************************************)
(* The `passport load` command of src/src/main.rs (lines 244-262): the     *)
(* passport file is imported, the event file is read, the event is loaded, *)
(* the passport file is created anew and the Passport is exported to it.   *)
(* Every failure is unwrapped: it ends the command where it stands.        *)
(***************************************************************************)
\* Passport::import, the loop from frame k on
RECURSIVE import_from(_, _, _)
import_from(p, frames, k) ==
    LET r == import_next(p, IF k > Len(frames) THEN <<>> ELSE <<frames[k]>>)
    IN  IF r.pc = "loop" THEN import_from(r.imp, frames, k + 1) ELSE r.ret

\* Passport::import(reader) of a file that holds frames
import(frames) ==
    LET r == import_first(IF frames = <<>> THEN <<>> ELSE <<frames[1]>>)
    IN  IF r.pc = "loop" THEN import_from(r.imp, frames, 2) ELSE r.ret

\* the events the event file can hold: those `event declare` and `event
\* repudiate` prepare on the Passport p, signed by any identity
LoadEvents(p) ==
    {next_event_declare(p, x, w) : x \in Ids, w \in Ids}
        \cup {next_event_repudiate(p, x, n) : x \in Ids, n \in EventIds}

\* the founder ran `passport new`: the passport file holds the genesis
LoadInit ==
    /\ identity \in Ids
    /\ SessionStart
    /\ IdentityIdle
    /\ EventIdle
    /\ lpc = "done"
    /\ disk = export(new(identity))
    /\ orig = disk
    /\ lp = NoPassport
    /\ lev = <<>>

\* `passport load` is started on the passport file as the last command left it
LoadStart ==
    /\ lpc \in {"done", "panic"}
    /\ Len(disk) < MaxChain
    /\ orig' = disk
    /\ lp' = NoPassport
    /\ lev' = <<>>
    /\ lpc' = "import"
    /\ UNCHANGED disk
    /\ UNCHANGED <<session, out, idvars, evvars>>

\* let mut p = Passport::import(&mut reader).await.unwrap()
LoadImport ==
    /\ lpc = "import"
    /\ lp' = import(disk).passport
    /\ lpc' = IF import(disk).ok THEN "read" ELSE "panic"
    /\ UNCHANGED <<disk, orig, lev>>
    /\ UNCHANGED <<session, out, idvars, evvars>>

\* let event: Event = serde_json::from_reader(file).unwrap()
LoadParse(e) ==
    /\ lpc = "read"
    /\ lev' = <<e>>
    /\ lpc' = "append"
    /\ UNCHANGED <<disk, orig, lp>>
    /\ UNCHANGED <<session, out, idvars, evvars>>

\* the event file is missing or does not parse
LoadParseFails ==
    /\ lpc = "read"
    /\ lpc' = "panic"
    /\ UNCHANGED <<disk, orig, lp, lev>>
    /\ UNCHANGED <<session, out, idvars, evvars>>

\* p.load_event(event).unwrap()
LoadAppend ==
    /\ lpc = "append"
    /\ lp' = load_event(lp, lev[1]).passport
    /\ lpc' = IF load_event(lp, lev[1]).ok THEN "create" ELSE "panic"
    /\ UNCHANGED <<disk, orig, lev>>
    /\ UNCHANGED <<session, out, idvars, evvars>>

\* output_or_standard_output: fs::File::create(path) opens the passport file
\* and truncates it
LoadCreate ==
    /\ lpc = "create"
    /\ disk' = <<>>
    /\ lpc' = "write"
    /\ UNCHANGED <<orig, lp, lev>>
    /\ UNCHANGED <<session, out, idvars, evvars>>

\* fs::File::create(path) fails: the file is as it was
LoadCreateFails ==
    /\ lpc = "create"
    /\ lpc' = "panic"
    /\ UNCHANGED <<disk, orig, lp, lev>>
    /\ UNCHANGED <<session, out, idvars, evvars>>

\* Passport::export: writer.send(event) of the next frame
LoadSend ==
    /\ lpc = "write"
    /\ Len(disk) < Len(export(lp))
    /\ disk' = Append(disk, export(lp)[Len(disk) + 1])
    /\ UNCHANGED <<lpc, orig, lp, lev>>
    /\ UNCHANGED <<session, out, idvars, evvars>>

\* writer.send(event) fails: export unwraps the error (passport.rs 80)
LoadSendFails ==
    /\ lpc = "write"
    /\ Len(disk) < Len(export(lp))
    /\ lpc' = "panic"
    /\ UNCHANGED <<disk, orig, lp, lev>>
    /\ UNCHANGED <<session, out, idvars, evvars>>

\* export has written every event: the command ends
LoadEnd ==
    /\ lpc = "write"
    /\ Len(disk) = Len(export(lp))
    /\ lpc' = "done"
    /\ UNCHANGED <<disk, orig, lp, lev>>
    /\ UNCHANGED <<session, out, idvars, evvars>>

LoadNext ==
    \/ LoadStart
    \/ LoadImport
    \/ \E e \in LoadEvents(lp) : LoadParse(e)
    \/ LoadParseFails
    \/ LoadAppend
    \/ LoadCreate
    \/ LoadCreateFails
    \/ LoadSend
    \/ LoadSendFails
    \/ LoadEnd

LoadSpec == LoadInit /\ [][LoadNext]_vars

(***************************************************************************)
(* Vocabulary of the properties.                                           *)
(***************************************************************************)
\* the errors load_event returns (PassportError)
ChainErrors == {"bad_id", "bad_signature", "unauthorized", "bad_reference"}

IsPrefix(s, t) == Len(s) <= Len(t) /\ SubSeq(t, 1, Len(s)) = s

\* a Declaration signed, at the author slot, by the identity it declares
SelfSignedDeclaration(e) ==
    e.action.kind = "Declaration" /\ e.sigs[0] = Sign(e.action.with)

\* import is running on, or has finished with, the stream in wire
Importing == pc \in {"first", "loop", "ok", "err"}

\* the stream in wire is what export wrote for the Passport in memory
ReadingOwnExport == Importing /\ passport # NoPassport /\ wire = export(passport)

\* frame i of wire decodes
Decodes(i) == Decode(wire[i]).ok
Decoded(i) == Decode(wire[i]).event

\* the chain the first n frames of wire build when each decodes and each is
\* accepted, from the genesis on, in their order; NoPassport otherwise
RECURSIVE Replay(_)
Replay(n) ==
    IF n = 0 \/ ~Decodes(n) THEN NoPassport
    ELSE IF n = 1 THEN LibNewWith(Decoded(1)).passport
    ELSE IF Replay(n - 1) = NoPassport \/ ~LibLoadEvent(Replay(n - 1), Decoded(n)).ok
    THEN NoPassport
    ELSE LibLoadEvent(Replay(n - 1), Decoded(n)).passport

\* the first n frames of wire decode and pass chain validation in order
GoodPrefix(n) == n >= 1 /\ Replay(n) # NoPassport

(***************************************************************************)
(* C1  Round-trip.  Whenever import has finished reading the stream that   *)
(* export wrote for the Passport in memory, it has not failed, and it       *)
(* returns a Passport with the same events in the same order and the same  *)
(* active-identity set.                                                    *)
(***************************************************************************)
C1_RoundTrip ==
    ReadingOwnExport =>
        /\ pc # "err"
        /\ pc = "ok" =>
              /\ ret.ok
              /\ events(ret.passport) = events(passport)
              /\ ret.passport.active = passport.active

\* a re-import of a chain holding a co-signed Declaration and a Repudiation
C1_Witness ==
    /\ ReadingOwnExport /\ pc = "ok" /\ ret.ok
    /\ \E i \in 1..Len(events(passport)) : events(passport)[i].sigs[1] # NoSig
    /\ \E i \in 1..Len(events(passport)) : events(passport)[i].action.kind = "Repudiation"

(***************************************************************************)
(* C2  Atomic append.  Every load_event(e) either returns success with     *)
(* events() the previous sequence followed by e, or returns a chain error  *)
(* with the Passport (its events and its active set) as it was.            *)
(***************************************************************************)
C2_AtomicAppend ==
    [][(arg # <<>> /\ arg' = <<>>) =>
          \/ /\ res' = "ok"
             /\ events(passport') = Append(events(passport), arg[1])
          \/ /\ res' \in ChainErrors
             /\ events(passport') = events(passport)
             /\ passport'.active = passport.active]_vars

\* a rejected load on a chain that earlier loads have grown
C2_Witness ==
    /\ pc = "ready" /\ res \in ChainErrors
    /\ Len(events(passport)) >= 2

(***************************************************************************)
(* C3  Authorization enforcement.  In every reachable state of a Passport, *)
(* load_event rejects every event none of whose signers is in the active   *)
(* set, whether or not its signatures verify, and leaves the Passport as   *)
(* it was.                                                                 *)
(***************************************************************************)
C3_Authorization ==
    (pc = "ready" /\ arg = <<>>) =>
        \A e \in Events :
            Signers(e) \cap passport.active = {} =>
                /\ ~load_event(passport, e).ok
                /\ load_event(passport, e).passport = passport

\* the event about to be loaded on a genesis-only chain carries the next id
\* and a verifying signature of an identity not declared yet, and of no
\* other: load_event rejects it
C3_Witness ==
    /\ pc = "ready" /\ arg # <<>>
    /\ Len(events(passport)) = 1
    /\ arg[1].id = 1
    /\ arg[1].sigs[0].ok
    /\ Signers(arg[1]) \cap passport.active = {}
    /\ load_event(passport, arg[1]).err = "unauthorized"

(***************************************************************************)
(* C4  Genesis requirement.  Import of an empty stream fails (InvalidInput)*)
(* and import of a stream whose first frame is not a self-signed           *)
(* Declaration fails (InvalidData); neither produces a Passport.           *)
(***************************************************************************)
C4_GenesisRequired ==
    /\ (pc \in {"loop", "ok", "err"} /\ wire = <<>>) =>
          /\ pc = "err"
          /\ ret = Err("InvalidInput")
          /\ imp = NoPassport
    /\ (Importing /\ rd >= 1 /\ ~(Decodes(1) /\ SelfSignedDeclaration(Decoded(1)))) =>
          /\ pc = "err"
          /\ ret = Err("InvalidData")
          /\ imp = NoPassport

\* the first frame decoded to a Declaration that its author did not sign
C4_Witness ==
    /\ pc = "err" /\ rd = 1
    /\ Decodes(1)
    /\ Decoded(1).action.kind = "Declaration"
    /\ Decoded(1).sigs[0].ok
    /\ Decoded(1).sigs[0].by # Decoded(1).action.with

(***************************************************************************)
(* C5  Import is all-or-nothing.  While import reads, the frames read so   *)
(* far all decoded and passed chain validation in order.  It returns a     *)
(* Passport only at the end of the stream, and the Passport is the chain   *)
(* of all the frames.  It fails at the first frame that does not decode or *)
(* that the chain rejects (or on an empty stream), returns no Passport,    *)
(* and reads nothing further.                                              *)
(***************************************************************************)
C5_Inv ==
    /\ pc = "loop" => GoodPrefix(rd) /\ imp = Replay(rd)
    /\ pc = "ok" =>
          /\ closed /\ rd = Len(wire)
          /\ GoodPrefix(rd)
          /\ ret = Ok(Replay(rd))
          /\ events(ret.passport) = [i \in 1..Len(wire) |-> Decoded(i)]
    /\ pc = "err" =>
          /\ ~ret.ok /\ ret.passport = NoPassport /\ imp = NoPassport
          /\ rd = 0 => (wire = <<>> /\ closed)
          /\ rd >= 1 => (~GoodPrefix(rd) /\ (rd > 1 => GoodPrefix(rd - 1)))

C5_AllOrNothing ==
    /\ []C5_Inv
    /\ [][pc = "err" => (rd' = rd /\ ret' = ret /\ pc' = "err")]_vars

\* import failed at the second frame of a stream that holds a third
C5_Witness ==
    /\ pc = "err" /\ rd = 2 /\ Len(wire) = 3
    /\ GoodPrefix(1)

(***************************************************************************)
(* C6  Append-only history.  At every step events() before the step is a   *)
(* prefix of events() after it: no earlier event is altered, reordered or  *)
(* removed, a repudiated Declaration included.                             *)
(***************************************************************************)
C6_AppendOnly ==
    [][IsPrefix(events(passport), events(passport'))]_vars

\* a Repudiation was loaded, and the Declaration it repudiates is still at
\* its position while the identity it declared is no longer active
C6_Witness ==
    /\ pc = "ready" /\ res = "ok"
    /\ LET es == events(passport)
       IN  /\ Len(es) >= 2
           /\ es[Len(es)].action.kind = "Repudiation"
           /\ es[Len(es)].action.event < Len(es)
           /\ es[es[Len(es)].action.event + 1].action.kind = "Declaration"
           /\ es[es[Len(es)].action.event + 1].action.with \notin passport.active

(***************************************************************************)
(* C7  A Passport is always appendable.  In every founded state the        *)
(* active-identity set is not empty and there is an event that load_event  *)
(* accepts.                                                                *)
(***************************************************************************)
C7_AlwaysAppendable ==
    pc = "ready" =>
        /\ passport.active # {}
        /\ \E e \in Events : load_event(passport, e).ok

(***************************************************************************)
(* C8  Genesis first.  A Passport obtained from new or from import, and    *)
(* grown by load_event, is never empty and starts with the self-signed     *)
(* Declaration at position 0; the Passport new returns declares the        *)
(* identity it was given.                                                  *)
(***************************************************************************)
Founded(p) ==
    /\ Len(events(p)) >= 1
    /\ events(p)[1].id = 0
    /\ SelfSignedDeclaration(events(p)[1])

C8_GenesisFirst ==
    /\ pc \in {"ready", "exported"} => Founded(passport)
    /\ passport # NoPassport => Founded(passport)
    /\ pc = "ok" => Founded(ret.passport)
    /\ res = "new" => events(passport)[1].action.with = identity

\* an imported Passport, founded by another identity than the session's,
\* after a further event was loaded into it
C8_Witness ==
    /\ pc = "ready" /\ res = "ok"
    /\ Len(events(passport)) >= 3
    /\ events(passport)[1].action.with # identity

(***************************************************************************)
(* C9  Repudiation referential integrity.  In every reachable Passport     *)
(* state, load_event accepts a Repudiation only if the id it names is the  *)
(* id of an event of the chain, that event is a Declaration, the identity  *)
(* it declares is active, and no event of the chain repudiates it already. *)
(***************************************************************************)
C9_RepudiationReference ==
    (pc = "ready" /\ arg = <<>>) =>
        \A e \in Events :
            (e.action.kind = "Repudiation" /\ load_event(passport, e).ok) =>
                /\ e.action.event < Len(events(passport))
                /\ events(passport)[e.action.event + 1].id = e.action.event
                /\ events(passport)[e.action.event + 1].action.kind = "Declaration"
                /\ events(passport)[e.action.event + 1].action.with \in passport.active
                /\ \A i \in 1..Len(events(passport)) :
                      ~(/\ events(passport)[i].action.kind = "Repudiation"
                        /\ events(passport)[i].action.event = e.action.event)

\* the chain holds a Repudiation; a second Repudiation of the same event,
\* with the next id and a verifying signature of an active identity, is rejected
C9_Witness ==
    /\ pc = "ready" /\ res = "ok"
    /\ \E e \in Events :
          /\ e.action.kind = "Repudiation"
          /\ e.id = Len(events(passport))
          /\ e.sigs[0].ok /\ e.sigs[0].by \in passport.active
          /\ \E i \in 1..Len(events(passport)) :
                /\ events(passport)[i].action.kind = "Repudiation"
                /\ events(passport)[i].action.event = e.action.event
          /\ load_event(passport, e).err = "bad_reference"

(***************************************************************************)
(* C10  Active-set transitions.  From new(A), active set {A}: the          *)
(* Declaration of B that A prepares and self-signs is accepted and gives   *)
(* {A, B}; the Repudiation of that Declaration that A prepares and signs   *)
(* is accepted and gives {A}, with three events and B's Declaration still  *)
(* the second; the export of that chain imports to the same three events   *)
(* and the active set {A}.                                                 *)
(***************************************************************************)
ScenarioP1 == new("A")
ScenarioD == next_event_declare(ScenarioP1, "A", "B")
ScenarioP2 == load_event(ScenarioP1, ScenarioD).passport
ScenarioR == next_event_repudiate(ScenarioP2, "A", ScenarioD.id)
ScenarioChain == <<events(ScenarioP1)[1], ScenarioD, ScenarioR>>

C10_Inv ==
    /\ events(passport) = SubSeq(ScenarioChain, 1, 1) => passport.active = {"A"}
    /\ events(passport) = SubSeq(ScenarioChain, 1, 2) => passport.active = {"A", "B"}
    /\ events(passport) = ScenarioChain =>
          /\ passport.active = {"A"}
          /\ Len(events(passport)) = 3
          /\ events(passport)[2].action = Declaration("B")
    /\ (pc = "ok" /\ events(passport) = ScenarioChain /\ wire = export(passport)) =>
          /\ ret.ok
          /\ events(ret.passport) = ScenarioChain
          /\ ret.passport.active = {"A"}

C10_Scenario ==
    /\ []C10_Inv
    /\ [][(/\ arg # <<>> /\ arg' = <<>>
           /\ \/ events(passport) = SubSeq(ScenarioChain, 1, 1) /\ arg[1] = ScenarioD
              \/ events(passport) = SubSeq(ScenarioChain, 1, 2) /\ arg[1] = ScenarioR)
          => (res' = "ok" /\ events(passport') = Append(events(passport), arg[1]))]_vars

\* the scenario's chain was built by A, exported and imported again
C10_Witness ==
    /\ identity = "A" /\ pc = "ok" /\ ret.ok
    /\ events(passport) = ScenarioChain
    /\ wire = export(passport)

(***************************************************************************)
(* C11  I/O failures are returned, not raised.  No operation of the        *)
(* Passport panics, and an import whose read failed has returned an error  *)
(* value and no Passport.                                                  *)
(***************************************************************************)
C11_IoFailuresReturned ==
    /\ pc # "panic"
    /\ (Importing /\ rd >= 1 /\ wire[rd] = ReadError) => (pc = "err" /\ ~ret.ok)

(***************************************************************************)
(* C12  Preparing an event does not commit it.  next_event_declare and     *)
(* next_event_repudiate return an event whose id is the next position of   *)
(* the chain and whose action is the one asked for; the step that prepares *)
(* it leaves the Passport, its events and its active set as they were; and *)
(* the events of a Passport in memory change only by a load_event, which   *)
(* appends the event it was given.                                         *)
(***************************************************************************)
C12_Prepared ==
    (pc = "ready" /\ arg = <<>>) =>
        /\ \A w \in Ids :
              /\ next_event_declare(passport, identity, w).id = Len(events(passport))
              /\ next_event_declare(passport, identity, w).action = Declaration(w)
        /\ \A n \in EventIds :
              /\ next_event_repudiate(passport, identity, n).id = Len(events(passport))
              /\ next_event_repudiate(passport, identity, n).action = Repudiation(n)

C12_PrepareDoesNotCommit ==
    /\ []C12_Prepared
    /\ [][((\E w \in Ids : DeclareEvent(w)) \/ (\E n \in EventIds : RepudiateEvent(n))) =>
            /\ passport' = passport
            /\ events(passport') = events(passport)
            /\ arg'[1].id = Len(events(passport'))]_vars
    /\ [][(passport # NoPassport /\ events(passport') # events(passport)) =>
            /\ arg # <<>> /\ arg' = <<>>
            /\ events(passport') = Append(events(passport), arg[1])]_vars

\* a Repudiation was prepared on a chain of two events and is not in it
C12_Witness ==
    /\ pc = "ready" /\ arg # <<>>
    /\ Len(events(passport)) = 2
    /\ \E n \in EventIds : arg[1] = next_event_repudiate(passport, identity, n)
    /\ \A i \in 1..Len(events(passport)) : events(passport)[i] # arg[1]

\* the Passport that new_with of the first event of es followed by load_event
\* of the others, in order, builds; NoPassport when one of them is rejected
RECURSIVE Rebuild(_)
Rebuild(es) ==
    IF es = <<>> THEN NoPassport
    ELSE IF Len(es) = 1 THEN LibNewWith(es[1]).passport
    ELSE LET p == Rebuild(SubSeq(es, 1, Len(es) - 1))
         IN  IF p = NoPassport \/ ~LibLoadEvent(p, es[Len(es)]).ok THEN NoPassport
             ELSE LibLoadEvent(p, es[Len(es)]).passport

\* the Passports the session holds: in memory, inside import, returned by it
Held == {passport, imp, ret.passport} \ {NoPassport}

(***************************************************************************)
(* C13  Determinism of replay.  Every Passport the program holds, whether  *)
(* built by new and load_event, or by import of a stream that arrived in   *)
(* any chunking, is the Passport that new_with and load_event build from   *)
(* its events in order: it has the same active set and gives every event   *)
(* the same verdict.  Two Passports with the same events are therefore     *)
(* the same.                                                               *)
(***************************************************************************)
C13_ReplayDeterministic ==
    /\ \A p \in Held :
          /\ Rebuild(events(p)) # NoPassport
          /\ p.active = Rebuild(events(p)).active
          /\ p = Rebuild(events(p))
    /\ \A p, q \in Held : events(p) = events(q) => p = q
    /\ (pc = "ready" /\ arg # <<>>) =>
          load_event(passport, arg[1]).ok =
              LibLoadEvent(Rebuild(events(passport)), arg[1]).ok

\* import returned a chain of three events, read from a stream from outside
\* that arrived one frame at a time, and one identity of it was repudiated
C13_Witness ==
    /\ pc = "ok" /\ passport = NoPassport
    /\ Len(events(ret.passport)) = 3
    /\ Cardinality(ret.passport.active) = 1
    /\ \E i \in 1..3 : events(ret.passport)[i].action.kind = "Repudiation"

\* every character of s is a hex digit
AllHex(s) == \A i \in 1..Len(s) : IsHex(s[i])

\* the text given as --seed was parsed: accepted or refused
SeedParsed == ipc \notin {"idle", "args"}

(***************************************************************************)
(* C14, as the claim states it.  Seed::from_hex refuses every text that is *)
(* not the hex encoding of exactly 32 bytes, and every Seed holds exactly  *)
(* 32 bytes.                                                               *)
(***************************************************************************)
C14_OnlyThirtyTwoBytes ==
    /\ (SeedParsed /\ ~(Len(text) = 2 * ChaChaKeyLen /\ AllHex(text))) => ipc = "usage"
    /\ seed.some => Len(seed.bytes) = ChaChaKeyLen

(***************************************************************************)
(* C14  Seed::from_hex fails, with a decoding error and no Seed, exactly   *)
(* on the texts with an odd number of characters or with a character that  *)
(* is not a hex digit.  It accepts the hex encoding of any number of       *)
(* bytes, the empty text included, and the Seed holds the bytes the text   *)
(* encodes: as many as half the text's length, not always 32.              *)
(***************************************************************************)
C14_FromHex ==
    /\ SeedParsed =>
          (ipc = "usage") = (Len(text) % 2 = 1 \/ ~AllHex(text))
    /\ ipc = "usage" =>
          /\ seed = NoSeed
          /\ from_hex(text).err = (IF Len(text) % 2 = 1 THEN "OddLength"
                                   ELSE "InvalidHexCharacter")
    /\ ipc = "parsed" =>
          /\ seed.some
          /\ Len(seed.bytes) = Len(text) \div 2
          /\ \A k \in 1..Len(seed.bytes) :
                /\ seed.bytes[k] \in 0..255
                /\ seed.bytes[k] = 16 * HexVal(text[2 * k - 1]) + HexVal(text[2 * k])
          /\ from_hex(to_hex(seed.bytes)).seed = seed

\* a Seed of one byte, parsed from two digits, one of them upper case
C14_Witness ==
    /\ ipc = "parsed"
    /\ Len(seed.bytes) = 1
    /\ \E i \in 1..Len(text) : text[i] = 65

\* Identity::import has returned
IdentityRead == ipc \in {"imported", "failed"}

(***************************************************************************)
(* C15  Identity round-trip.  What export writes for an Identity is        *)
(* exactly 2 * SeedSize characters, each a hex digit, and nothing else;    *)
(* every import of the file as export wrote it succeeds and yields an       *)
(* Identity with the same seed and the same public identity.               *)
(***************************************************************************)
C15_IdentityRoundTrip ==
    /\ ipc = "stored" =>
          /\ Len(file) = 2 * SeedSize
          /\ AllHex(file)
          /\ HexDecode(file).bytes = ident.seed
    /\ (IdentityRead /\ file = identity_export(ident).written) =>
          /\ ipc = "imported"
          /\ got.ok
          /\ got.identity.some
          /\ got.identity.seed = ident.seed
          /\ got.identity.public = ident.public

\* the file of an Identity generated from a seed text of one byte was read back
C15_Witness ==
    /\ ipc = "imported"
    /\ Len(text) = 2
    /\ file = identity_export(ident).written
    /\ got.identity = ident

IsScrubbed(b) == b = Zeros(Len(b))

(***************************************************************************)
(* C17  Secret scrubbing.  Every buffer released by Seed::into_cha_cha_rng, *)
(* Identity::export and Identity::import was overwritten with zeros before  *)
(* it was released, on the failing paths as on the others.                 *)
(***************************************************************************)
C17_ScrubbedOnRelease == \A b \in freed : IsScrubbed(b)

(***************************************************************************)
(* C19  Seed::into_cha_cha_rng never fails, and seeds the generator with   *)
(* the first 32 bytes of the Seed, padded with zero bytes when the Seed is *)
(* shorter.                                                                *)
(***************************************************************************)
C19_FirstThirtyTwoBytes ==
    /\ ipc # "panic"
    /\ ipc \in {"seeded", "made", "stored", "altered", "imported", "failed"} =>
          /\ Len(rng) = ChaChaKeyLen
          /\ \A i \in 1..ChaChaKeyLen :
                rng[i] = IF i <= Len(HexDecode(text).bytes)
                         THEN HexDecode(text).bytes[i] ELSE 0

(***************************************************************************)
(* C18  Signature slots are independent.  A step of force_signature(x, i)  *)
(* puts x's signature in slot i and leaves every other slot, the id and    *)
(* the action of the event as they were; and the event that results from   *)
(* filling both slots does not depend on the order in which they are       *)
(* filled.                                                                 *)
(***************************************************************************)
C18_OrderFree ==
    \A x, y \in Ids :
        extra_signature(extra_signature(ev, x, 0), y, 1) =
            extra_signature(extra_signature(ev, y, 1), x, 0)

C18_SlotsIndependent ==
    /\ []C18_OrderFree
    /\ [][last' # last \/ ev' # ev =>
            /\ ev'.sigs[last'[2]] = Sign(last'[1])
            /\ \A j \in Slots \ {last'[2]} : ev'.sigs[j] = ev.sigs[j]
            /\ ev'.id = ev.id
            /\ ev'.action = ev.action]_vars

\* the co-signer slot was signed, by another identity, after the author slot
C18_Witness ==
    /\ last # <<>> /\ last[2] = 1
    /\ ev.sigs[0].ok /\ ev.sigs[1].ok
    /\ ev.sigs[0].by # ev.sigs[1].by

(***************************************************************************)
(* C20  `passport info`, after a successful import, has written all the    *)
(* active identities of the Passport when --active-ids was given and all   *)
(* its events when --events was given.                                     *)
(***************************************************************************)
C20_InfoDisplays ==
    pc = "done" =>
        /\ "events" \in out.flags =>
              ("events" \in out.wrote /\ out.events = events(ret.passport))
        /\ "active_ids" \in out.flags =>
              ("active_ids" \in out.wrote /\ out.active = ret.passport.active)

\* the `passport load` command has ended, by success or by a panic
LoadEnded == lpc \in {"done", "panic"}

(***************************************************************************)
(* C21  Stored-passport atomicity of `passport load`.  Whenever the        *)
(* command has ended, the passport file holds the chain it held when the   *)
(* command started, or that chain followed by the one event loaded; it is  *)
(* not empty and does not hold a proper prefix of the chain.               *)
(***************************************************************************)
C21_StoredAtomic ==
    LoadEnded =>
        /\ disk # <<>>
        /\ \/ disk = orig
           \/ lev # <<>> /\ disk = Append(orig, Encode(lev[1]))

=============================================================================
